---- MODULE Spec2Model ----
(***************************************************************************)
(* A model of the archive consistency engine of archivist                  *)
(* (src/archive.go): the Archive handle and its presence maps, the         *)
(* concurrent scanners ScanCheckpoints and ScanBuckets, and the two        *)
(* orchestrators Mirror and Repair.                                        *)
(*                                                                         *)
(* Every goroutine of the source is a process with a program counter; one  *)
(* action is one step of one goroutine, taken at a channel operation, a    *)
(* mutex operation or a backend call, together with the statements local   *)
(* to the goroutine that follow it.  The locals of a loop iteration are    *)
(* reset when the iteration ends.  log.Fatal ends the whole process: it    *)
(* sets fatal, and no action is enabled afterwards.                        *)
(*                                                                         *)
(* The worker pools hold `concurrency` workers (32 in the source); the     *)
(* model runs them with MaxWorkers workers.  An unbuffered channel fed by  *)
(* a dedicated producer goroutine is the sequence of values the producer   *)
(* has still to send: a receive takes its head, and the channel reads as   *)
(* closed once the sequence is empty.                                      *)
(*                                                                         *)
(* Range, HistoryArchiveState, Hash, CheckpointPrefix, RangePaths and the  *)
(* storage backends are not part of src/archive.go; they are modelled from *)
(* the specification's sections 3, 4.1 and 4.2.                            *)
(***************************************************************************)
EXTENDS Integers, Sequences, FiniteSets, TLC

(***************************************************************************)
(* Bounds of the model.                                                    *)
(***************************************************************************)
MaxWorkers == 2
MaxCheckpoints == 2
MaxBuckets == 2

(***************************************************************************)
(* Constants of the program.                                               *)
(***************************************************************************)
concurrency == MaxWorkers
CheckpointFreq == 64
DirSize == 256

Categories == <<"history", "ledger", "transactions", "results", "scp">>
CategorySet == {Categories[i] : i \in 1..Len(Categories)}

categoryExt(n) == IF n = "history" THEN "json" ELSE "xdr.gz"

categoryRequired(n) == n # "scp"

(***************************************************************************)
(* The checkpoints and bucket hashes of the model.  The window of          *)
(* checkpoints starts at 0xbf: 0xbf and 0xff lie in the hex-prefix         *)
(* directory 00/00/00, the checkpoints after them in 00/00/01.             *)
(***************************************************************************)
FirstCheckpoint == 3 * CheckpointFreq - 1
LastCheckpoint == FirstCheckpoint + (MaxCheckpoints - 1) * CheckpointFreq
Seqs == {FirstCheckpoint + k * CheckpointFreq : k \in 0..(MaxCheckpoints - 1)}
Hashes == 1..MaxBuckets
Workers == 1..concurrency

(***************************************************************************)
(* Range.                                                                  *)
(***************************************************************************)
MakeRange(low, high) == [lo |-> low, hi |-> high]

Max(a, b) == IF a > b THEN a ELSE b
Min(a, b) == IF a < b THEN a ELSE b

\* The smallest range that covers both, where Clamp is the intersection.
ClampHull(r, other) == MakeRange(Min(r.lo, other.lo), Max(r.hi, other.hi))

Clamp(r, other) == MakeRange(Max(r.lo, other.lo), Min(r.hi, other.hi))

RECURSIVE CheckpointsFrom(_, _)
CheckpointsFrom(i, high) ==
    IF i > high THEN <<>> ELSE <<i>> \o CheckpointsFrom(i + CheckpointFreq, high)

Checkpoints(r) == CheckpointsFrom(r.lo, r.hi)

CheckpointSet(r) == {Checkpoints(r)[i] : i \in 1..Len(Checkpoints(r))}

RangeSize(r) == Len(Checkpoints(r))

CheckpointPrefix(chk) == chk \div DirSize

HashPrefix(bucket) == bucket

PathsFrom(d, high) == [i \in 1..(high - d + 1) |-> d + i - 1]

RangePaths(r) ==
    IF r.hi < r.lo THEN <<>>
    ELSE PathsFrom(CheckpointPrefix(r.lo), CheckpointPrefix(r.hi))

(***************************************************************************)
(* Path algebra.  A path is <<namespace, hex-prefix directory, name>>.     *)
(***************************************************************************)
rootHASPath == <<".well-known", 0, 0>>

CategoryCheckpointPath(cat, chk) == <<cat, CheckpointPrefix(chk), chk>>

BucketPath(bucket) == <<"bucket", HashPrefix(bucket), bucket>>

CheckpointPaths == {CategoryCheckpointPath(c, s) : c \in CategorySet, s \in Seqs}
BucketPaths == {BucketPath(h) : h \in Hashes}
AllPaths == {rootHASPath} \cup CheckpointPaths \cup BucketPaths

(***************************************************************************)
(* File contents and the History Archive State.  A file is absent, an      *)
(* opaque xdr.gz stream, or a JSON document; `bytes` tells two encodings   *)
(* of one document apart (the bytes as found in the source archive, or     *)
(* the 4-space-indented form json.MarshalIndent writes).                   *)
(***************************************************************************)
Absent == [form |-> "absent", currentLedger |-> 0, currentBuckets |-> <<>>,
           bytes |-> "none"]

Xdr(org) == [form |-> "xdr", currentLedger |-> 0, currentBuckets |-> <<>>,
             bytes |-> org]

Json(ledger, buckets, style) ==
    [form |-> "json", currentLedger |-> ledger, currentBuckets |-> buckets,
     bytes |-> style]

MakeHAS(ledger, buckets) == [currentLedger |-> ledger, currentBuckets |-> buckets]

NoHAS == MakeHAS(0, <<>>)

HASRange(has) == MakeRange(FirstCheckpoint, has.currentLedger)

Buckets(has) == has.currentBuckets

BucketSet(has) == {has.currentBuckets[i] : i \in 1..Len(has.currentBuckets)}

Decode(data) ==
    IF data.form = "json"
    THEN [ok |-> TRUE, has |-> MakeHAS(data.currentLedger, data.currentBuckets)]
    ELSE [ok |-> FALSE, has |-> NoHAS]

Encode(has) == Json(has.currentLedger, has.currentBuckets, "indented")

(***************************************************************************)
(* Backend: a store maps every path to its content.                        *)
(***************************************************************************)
Present(store, pth) == store[pth].form # "absent"

GetFile(store, pth) == [ok |-> Present(store, pth), data |-> store[pth]]

PutFile(store, pth, data) == [store EXCEPT ![pth] = data]

ListFiles(store, ns, dir) ==
    {p \in AllPaths : p[1] = ns /\ p[2] = dir /\ Present(store, p)}

ListNamespace(store, ns) == {p \in AllPaths : p[1] = ns /\ Present(store, p)}

EmptyStore == [p \in AllPaths |-> Absent]

(***************************************************************************)
(* Archive: reading and writing manifests.                                 *)
(***************************************************************************)
GetPathHAS(store, pth) ==
    LET r == GetFile(store, pth) IN
    IF r.ok THEN Decode(r.data) ELSE [ok |-> FALSE, has |-> NoHAS]

PutPathHAS(store, pth, has) == PutFile(store, pth, Encode(has))

GetRootHAS(store) == GetPathHAS(store, rootHASPath)

GetCheckpointHAS(store, chk) ==
    GetPathHAS(store, CategoryCheckpointPath("history", chk))

PutCheckpointHAS(store, chk, has) ==
    PutPathHAS(store, CategoryCheckpointPath("history", chk), has)

PutRootHAS(store, has) == PutPathHAS(store, rootHASPath, has)

(***************************************************************************)
(* copyPath: the result of the copy and the destination after it.          *)
(***************************************************************************)
copyPathAppending(s, d, pth) ==
    LET r == GetFile(s, pth) IN
    IF ~r.ok THEN [ok |-> FALSE, dst |-> d]
    ELSE [ok |-> TRUE,
          dst |-> PutFile(d, pth,
                     IF Present(d, pth)
                     THEN [r.data EXCEPT !.bytes = "appended"]
                     ELSE r.data)]

copyPathIgnoringMissing(s, d, pth) ==
    LET r == GetFile(s, pth) IN
    IF ~r.ok THEN [ok |-> TRUE, dst |-> d]
    ELSE [ok |-> TRUE, dst |-> PutFile(d, pth, r.data)]

copyPath(s, d, pth) ==
    LET r == GetFile(s, pth) IN
    IF ~r.ok THEN [ok |-> FALSE, dst |-> d]
    ELSE [ok |-> TRUE, dst |-> PutFile(d, pth, r.data)]


(***************************************************************************)
(* State.                                                                  *)
(*   src, dst          the source and the destination store                *)
(*   prog              the calls the driver has still to make              *)
(*   pc                where the calling goroutine stands                  *)
(*   rng, rootHAS      the locals rng and rootHAS of the running call      *)
(*   result            what the last call returned                         *)
(*   fatal             log.Fatal has ended the process                     *)
(*   queue             the work channel of the running worker pool         *)
(*   wpc, wix, whas,   each worker: its position, the checkpoint it holds, *)
(*   wbk, wcat         its manifest, the buckets and categories to go      *)
(*   bucketFetch,      Mirror's in-flight set and the holder of its mutex  *)
(*   bucketFetchMutex  (0: free)                                           *)
(*   puts              PutFile calls on dst per path, in the running call  *)
(*   copyCalls         copyPath calls per bucket, in the running call      *)
(*   snap, nMirror     dst as the first Mirror left it; Mirrors returned   *)
(*   op, arg           the running (or last) call and the range it was     *)
(*                     given                                               *)
(*   ret, scanErr      where ScanCheckpoints or ScanBuckets returns to,    *)
(*                     and the error it returned                           *)
(*   dst0              dst as it was when the running call started         *)
(*   wreq, wch         each scan worker: its request, and the checkpoints  *)
(*                     its listing channel has still to deliver            *)
(*   errs              the errors channel of ScanCheckpoints               *)
(*   blist, bpc        the bucket-listing goroutine of ScanBuckets: the    *)
(*                     hashes still to deliver, and its position           *)
(*   checkpointFiles, allBuckets, referencedBuckets                        *)
(*                     the presence maps of the destination's Archive      *)
(*   todo, curCat, repairedHistory, btodo                                  *)
(*                     Repair's locals: the missing files by category, the *)
(*                     category being repaired, and the missing buckets    *)
(*   faults            the listing prefixes on which ListFiles fails       *)
(*   cancelled         an external cancel signal has been raised           *)
(***************************************************************************)
VARIABLES src, dst, prog, pc, rng, rootHAS, result, fatal,
          queue, wpc, wix, whas, wbk, wcat,
          bucketFetch, bucketFetchMutex,
          puts, copyCalls, snap, nMirror,
          op, arg, ret, scanErr, dst0,
          wreq, wch, errs, blist, bpc,
          checkpointFiles, allBuckets, referencedBuckets,
          todo, curCat, repairedHistory, btodo,
          faults, cancelled,
          mutex, gcall,
          reqLeft, errsLen

\* The goroutines that touch the presence maps of one Archive: the scan
\* workers, the bucket lister of ScanBuckets, the tick logger, and the
\* goroutine that called the scan.
Lister == concurrency + 1
Ticker == concurrency + 2
Caller == concurrency + 3
Goroutines == 1..(concurrency + 3)

storeVars == <<src, dst>>
mainVars == <<prog, pc, rng, rootHAS, result, fatal>>
poolVars == <<queue, wpc, wix, whas, wbk, wcat>>
mirrorVars == <<bucketFetch, bucketFetchMutex>>
histVars == <<puts, copyCalls, snap, nMirror>>
callVars == <<op, arg, ret, scanErr, dst0>>
scanVars == <<wreq, wch, errs, blist, bpc>>
archVars == <<checkpointFiles, allBuckets, referencedBuckets>>
repairVars == <<todo, curCat, repairedHistory, btodo>>
envVars == <<faults, cancelled>>
lockVars == <<mutex, gcall>>
chanVars == <<reqLeft, errsLen>>
vars == <<storeVars, mainVars, poolVars, mirrorVars, histVars, callVars,
          scanVars, archVars, repairVars, envVars, lockVars, chanVars>>

\* The backend fails a PutFile of a path in `faults`.
PutFails(pth) == pth \in faults

NoPuts == [p \in AllPaths |-> 0]
NoCopies == [h \in Hashes |-> 0]

Put1(pth) == [puts EXCEPT ![pth] = @ + 1]

(***************************************************************************)
(* Mirror.                                                                 *)
(***************************************************************************)
\* wg.Wait() returns once every worker has called wg.Done().
wgNoWait == TRUE

wgWait == \A w \in Workers : wpc[w] = "done"

\* _, alreadyFetching = bucketFetch[bucket]
AlreadyFetchingNever(bucket) == FALSE

AlreadyFetching(bucket) == bucket \in bucketFetch

\* Mirror up to the start of the worker pool.
MirrorStart ==
    /\ ~fatal /\ pc = "idle" /\ prog # <<>> /\ Head(prog).op = "Mirror"
    /\ prog' = Tail(prog)
    /\ puts' = NoPuts /\ copyCalls' = NoCopies
    /\ LET r == GetRootHAS(src) IN
       IF ~r.ok
       THEN /\ result' = "error"
            /\ nMirror' = nMirror + 1
            /\ snap' = IF nMirror = 0 THEN dst ELSE snap
            /\ UNCHANGED <<pc, rng, rootHAS, poolVars, mirrorVars>>
       ELSE /\ rootHAS' = r.has
            /\ rng' = Clamp(Head(prog).rng, HASRange(r.has))
            /\ bucketFetch' = {} /\ bucketFetchMutex' = 0
            /\ queue' = Checkpoints(Clamp(Head(prog).rng, HASRange(r.has)))
            /\ wpc' = [w \in Workers |-> "recv"]
            /\ pc' = "mirror_wait"
            /\ result' = "running"
            /\ UNCHANGED <<wix, whas, wbk, wcat, snap, nMirror>>
    /\ UNCHANGED <<storeVars, fatal>>
    /\ op' = "Mirror" /\ arg' = Head(prog).rng /\ dst0' = dst
    /\ UNCHANGED <<ret, scanErr, scanVars, archVars, repairVars, envVars, lockVars, chanVars>>

\* ix, ok := <- checkpoints
MirrorRecv(w) ==
    /\ ~fatal /\ pc = "mirror_wait" /\ wpc[w] = "recv"
    /\ IF queue = <<>>
       THEN /\ wpc' = [wpc EXCEPT ![w] = "done"]
            /\ UNCHANGED <<queue, wix>>
       ELSE /\ wix' = [wix EXCEPT ![w] = Head(queue)]
            /\ queue' = Tail(queue)
            /\ wpc' = [wpc EXCEPT ![w] = "getHAS"]
    /\ UNCHANGED <<storeVars, mainVars, whas, wbk, wcat, mirrorVars, histVars>>
    /\ UNCHANGED <<callVars, scanVars, archVars, repairVars, envVars, lockVars, chanVars>>

\* has, e := src.GetCheckpointHAS(ix)
MirrorGetCheckpointHAS(w) ==
    /\ ~fatal /\ pc = "mirror_wait" /\ wpc[w] = "getHAS"
    /\ LET r == GetCheckpointHAS(src, wix[w]) IN
       IF ~r.ok
       THEN /\ fatal' = TRUE
            /\ UNCHANGED <<wpc, whas, wbk>>
       ELSE /\ whas' = [whas EXCEPT ![w] = r.has]
            /\ wbk' = [wbk EXCEPT ![w] = Buckets(r.has)]
            /\ wpc' = [wpc EXCEPT ![w] =
                         IF Buckets(r.has) = <<>> THEN "putHAS" ELSE "lock"]
            /\ UNCHANGED fatal
    /\ UNCHANGED <<storeVars, prog, pc, rng, rootHAS, result, queue, wix, wcat,
                   mirrorVars, histVars>>
    /\ UNCHANGED <<callVars, scanVars, archVars, repairVars, envVars, lockVars, chanVars>>

\* bucketFetchMutex.Lock()
MirrorLock(w) ==
    /\ ~fatal /\ pc = "mirror_wait" /\ wpc[w] = "lock"
    /\ bucketFetchMutex = 0
    /\ bucketFetchMutex' = w
    /\ wpc' = [wpc EXCEPT ![w] = "test"]
    /\ UNCHANGED <<storeVars, mainVars, queue, wix, whas, wbk, wcat,
                   bucketFetch, histVars>>
    /\ UNCHANGED <<callVars, scanVars, archVars, repairVars, envVars, lockVars, chanVars>>

\* The section under the mutex, and bucketFetchMutex.Unlock().
MirrorTestAndSet(w) ==
    /\ ~fatal /\ pc = "mirror_wait" /\ wpc[w] = "test"
    /\ bucketFetchMutex' = 0
    /\ IF AlreadyFetching(Head(wbk[w]))
       THEN /\ wbk' = [wbk EXCEPT ![w] = Tail(@)]
            /\ wpc' = [wpc EXCEPT ![w] =
                         IF Tail(wbk[w]) = <<>> THEN "putHAS" ELSE "lock"]
            /\ UNCHANGED bucketFetch
       ELSE /\ bucketFetch' = bucketFetch \cup {Head(wbk[w])}
            /\ wpc' = [wpc EXCEPT ![w] = "copyBucket"]
            /\ UNCHANGED wbk
    /\ UNCHANGED <<storeVars, mainVars, queue, wix, whas, wcat, histVars>>
    /\ UNCHANGED <<callVars, scanVars, archVars, repairVars, envVars, lockVars, chanVars>>

\* copyPath(src, dst, BucketPath(bucket))
MirrorCopyBucket(w) ==
    /\ ~fatal /\ pc = "mirror_wait" /\ wpc[w] = "copyBucket"
    /\ LET b == Head(wbk[w])
           r == copyPath(src, dst, BucketPath(b)) IN
       /\ copyCalls' = [copyCalls EXCEPT ![b] = @ + 1]
       /\ IF ~r.ok \/ PutFails(BucketPath(b))
          THEN /\ fatal' = TRUE
               /\ UNCHANGED <<dst, wbk, wpc, puts>>
          ELSE /\ dst' = r.dst
               /\ puts' = Put1(BucketPath(b))
               /\ wbk' = [wbk EXCEPT ![w] = Tail(@)]
               /\ wpc' = [wpc EXCEPT ![w] =
                            IF Tail(wbk[w]) = <<>> THEN "putHAS" ELSE "lock"]
               /\ UNCHANGED fatal
    /\ UNCHANGED <<src, prog, pc, rng, rootHAS, result, queue, wix, whas, wcat,
                   mirrorVars, snap, nMirror>>
    /\ UNCHANGED <<callVars, scanVars, archVars, repairVars, envVars, lockVars, chanVars>>

\* e = dst.PutCheckpointHAS(ix, has)
MirrorPutCheckpointHAS(w) ==
    /\ ~fatal /\ pc = "mirror_wait" /\ wpc[w] = "putHAS"
    /\ IF PutFails(CategoryCheckpointPath("history", wix[w]))
       THEN /\ fatal' = TRUE
            /\ UNCHANGED <<dst, puts, wcat, wpc>>
       ELSE /\ dst' = PutCheckpointHAS(dst, wix[w], whas[w])
            /\ puts' = Put1(CategoryCheckpointPath("history", wix[w]))
            /\ wcat' = [wcat EXCEPT ![w] = 1]
            /\ wpc' = [wpc EXCEPT ![w] = "copyCat"]
            /\ UNCHANGED fatal
    /\ UNCHANGED <<src, prog, pc, rng, rootHAS, result, queue, wix, whas, wbk,
                   mirrorVars, copyCalls, snap, nMirror>>
    /\ UNCHANGED <<callVars, scanVars, archVars, repairVars, envVars, lockVars, chanVars>>

\* One turn of: for _, cat := range Categories() { copyPath(src, dst, pth) }
MirrorCopyCategory(w) ==
    /\ ~fatal /\ pc = "mirror_wait" /\ wpc[w] = "copyCat"
    /\ LET pth == CategoryCheckpointPath(Categories[wcat[w]], wix[w])
           r == copyPath(src, dst, pth) IN
       IF ~r.ok \/ PutFails(pth)
       THEN /\ fatal' = TRUE
            /\ UNCHANGED <<dst, puts, wcat, wpc>>
       ELSE /\ dst' = r.dst
            /\ puts' = Put1(pth)
            /\ wcat' = [wcat EXCEPT ![w] = @ + 1]
            /\ wpc' = [wpc EXCEPT ![w] =
                         IF wcat[w] = Len(Categories) THEN "tick" ELSE "copyCat"]
            /\ UNCHANGED fatal
    /\ UNCHANGED <<src, prog, pc, rng, rootHAS, result, queue, wix, whas, wbk,
                   mirrorVars, copyCalls, snap, nMirror>>
    /\ UNCHANGED <<callVars, scanVars, archVars, repairVars, envVars, lockVars, chanVars>>

\* tick <- true; the iteration ends and its locals (ix, has) go out of scope.
MirrorTick(w) ==
    /\ ~fatal /\ pc = "mirror_wait" /\ wpc[w] = "tick"
    /\ wpc' = [wpc EXCEPT ![w] = "recv"]
    /\ wix' = [wix EXCEPT ![w] = 0]
    /\ whas' = [whas EXCEPT ![w] = NoHAS]
    /\ wcat' = [wcat EXCEPT ![w] = 0]
    /\ UNCHANGED <<storeVars, mainVars, queue, wbk, mirrorVars, histVars>>
    /\ UNCHANGED <<callVars, scanVars, archVars, repairVars, envVars, lockVars, chanVars>>

\* wg.Wait(); e = dst.PutRootHAS(rootHAS); close(tick); return e
MirrorPutRootHAS ==
    /\ ~fatal /\ pc = "mirror_wait" /\ wgWait
    /\ dst' = PutRootHAS(dst, rootHAS)
    /\ puts' = Put1(rootHASPath)
    /\ result' = "nil"
    /\ pc' = "idle"
    /\ nMirror' = nMirror + 1
    /\ snap' = IF nMirror = 0 THEN PutRootHAS(dst, rootHAS) ELSE snap
    /\ UNCHANGED <<src, prog, rng, rootHAS, fatal, poolVars, mirrorVars, copyCalls>>
    /\ UNCHANGED <<callVars, scanVars, archVars, repairVars, envVars, lockVars, chanVars>>

MirrorWorker(w) ==
    \/ MirrorRecv(w)
    \/ MirrorGetCheckpointHAS(w)
    \/ MirrorLock(w)
    \/ MirrorTestAndSet(w)
    \/ MirrorCopyBucket(w)
    \/ MirrorPutCheckpointHAS(w)
    \/ MirrorCopyCategory(w)
    \/ MirrorTick(w)


(***************************************************************************)
(* The archives the model starts from.  A source archive holds, for every  *)
(* checkpoint up to the ledger its root manifest declares, the five        *)
(* category files, and the bucket files; `missing` is the set of paths     *)
(* that are absent from it.  The manifests reference the buckets after one *)
(* of three layouts.                                                       *)
(***************************************************************************)
Layouts == {"shared", "crossed", "disjoint"}

AllAscending == [i \in 1..MaxBuckets |-> i]
AllDescending == [i \in 1..MaxBuckets |-> MaxBuckets + 1 - i]

CheckpointIndex(chk) == (chk - FirstCheckpoint) \div CheckpointFreq

BucketsAt(layout, chk) ==
    CASE layout = "shared" -> AllAscending
      [] layout = "crossed" ->
            IF CheckpointIndex(chk) % 2 = 0 THEN AllAscending ELSE AllDescending
      [] OTHER -> <<(CheckpointIndex(chk) % MaxBuckets) + 1>>

ArchiveStore(rootHi, layout, missing, org) ==
    [p \in AllPaths |->
        IF p \in missing THEN Absent
        ELSE IF p = rootHASPath THEN Json(rootHi, BucketsAt(layout, rootHi), org)
        ELSE IF p[1] = "bucket" THEN Xdr(org)
        ELSE IF p[3] > rootHi THEN Absent
        ELSE IF p[1] = "history" THEN Json(p[3], BucketsAt(layout, p[3]), org)
        ELSE Xdr(org)]

ScpPaths == {CategoryCheckpointPath("scp", s) : s \in Seqs}

\* The defects of a source archive the model tries: none, no scp file at all,
\* or a single absent path.
Defects ==
    {{}, ScpPaths} \cup {{p} : p \in {rootHASPath, BucketPath(1),
                                      CategoryCheckpointPath("history", FirstCheckpoint),
                                      CategoryCheckpointPath("ledger", FirstCheckpoint)}}

\* The single paths whose Put the backend of the destination may fail.
PutFaults ==
    {{BucketPath(1)},
     {CategoryCheckpointPath("history", FirstCheckpoint)},
     {CategoryCheckpointPath("ledger", LastCheckpoint)}}

InitCommon ==
    /\ pc = "idle" /\ result = "none" /\ fatal = FALSE
    /\ rng = MakeRange(1, 0) /\ rootHAS = NoHAS
    /\ queue = <<>>
    /\ wpc = [w \in Workers |-> "done"]
    /\ wix = [w \in Workers |-> 0]
    /\ whas = [w \in Workers |-> NoHAS]
    /\ wbk = [w \in Workers |-> <<>>]
    /\ wcat = [w \in Workers |-> 0]
    /\ bucketFetch = {} /\ bucketFetchMutex = 0
    /\ puts = NoPuts /\ copyCalls = NoCopies
    /\ nMirror = 0
    /\ op = "none" /\ arg = MakeRange(1, 0) /\ ret = "idle" /\ scanErr = "nil"
    /\ wreq = [w \in Workers |-> <<"none", 0>>]
    /\ wch = [w \in Workers |-> {}]
    /\ errs = <<>> /\ blist = {} /\ bpc = "done"
    /\ checkpointFiles = [c \in CategorySet |-> [s \in Seqs |-> "unknown"]]
    /\ allBuckets = {} /\ referencedBuckets = {}
    /\ todo = [c \in CategorySet |-> <<>>] /\ curCat = "none"
    /\ repairedHistory = FALSE /\ btodo = {}
    /\ cancelled = FALSE
    /\ mutex = 0 /\ gcall = [g \in Goroutines |-> "none"]
    /\ reqLeft = 0 /\ errsLen = 0

Call(o, r) == [op |-> o, rng |-> r]

FullRange == MakeRange(FirstCheckpoint, LastCheckpoint)

FirstOnly == MakeRange(FirstCheckpoint, FirstCheckpoint)

LastOnly == MakeRange(LastCheckpoint, LastCheckpoint)

InitMirror ==
    /\ InitCommon
    /\ \/ /\ \E rootHi \in {FirstCheckpoint, LastCheckpoint}, layout \in Layouts :
                src = ArchiveStore(rootHi, layout, {}, "source")
          /\ dst \in {EmptyStore,
                      ArchiveStore(FirstCheckpoint, "disjoint", {}, "stale")}
          /\ \E r \in {FirstOnly, FullRange, LastOnly} :
                prog = <<Call("Mirror", r), Call("Mirror", r)>>
          /\ faults = {}
       \/ /\ \E missing \in Defects :
                src = ArchiveStore(LastCheckpoint, "shared", missing, "source")
          /\ dst = EmptyStore
          /\ prog = <<Call("Mirror", FullRange), Call("Mirror", FullRange)>>
          /\ faults = {}
       \/ /\ src = ArchiveStore(LastCheckpoint, "shared", {}, "source")
          /\ dst = EmptyStore
          /\ prog = <<Call("Mirror", FullRange), Call("Mirror", FullRange)>>
          /\ faults \in PutFaults
    /\ snap = dst /\ dst0 = dst

NextMirror ==
    \/ MirrorStart
    \/ \E w \in Workers : MirrorWorker(w)
    \/ MirrorPutRootHAS

Spec == InitMirror /\ [][NextMirror]_vars


(***************************************************************************)
(* Claims about Mirror, checked under Spec.                                *)
(***************************************************************************)
MirrorReturnedNil == pc = "idle" /\ result = "nil" /\ nMirror > 0

\* The buckets the manifest of checkpoint chk in the source references.
SrcBuckets(chk) == BucketSet(GetCheckpointHAS(src, chk).has)

\* The checkpoints of the clamped range whose manifest references bucket h.
Referencing(h) == {s \in CheckpointSet(rng) : h \in SrcBuckets(s)}

\* C1: within one Mirror invocation copyPath is invoked at most once for
\* the path of each bucket hash, and exactly once, by the time Mirror
\* returns, for each hash some mirrored checkpoint manifest references.
C1_OneCopyPerBucket ==
    /\ \A h \in Hashes : copyCalls[h] <= 1
    /\ MirrorReturnedNil =>
          \A h \in Hashes : (copyCalls[h] = 1) <=> (Referencing(h) # {})

\* A Mirror has returned in which one bucket, referenced by at least two
\* mirrored checkpoints, was copied once.
C1_Witness ==
    /\ MirrorReturnedNil
    /\ \E h \in Hashes : Cardinality(Referencing(h)) >= 2 /\ copyCalls[h] = 1

\* C2: within one Mirror invocation the destination root manifest is
\* written at most once, only when every worker has finished and every
\* bucket, checkpoint manifest and category file of every checkpoint of the
\* clamped range has been written, and exactly once when Mirror returns.
C2_RootWrittenOnceLast ==
    /\ puts[rootHASPath] <= 1
    /\ puts[rootHASPath] = 1 =>
          /\ wgWait /\ queue = <<>>
          /\ \A s \in CheckpointSet(rng) :
                /\ puts[CategoryCheckpointPath("history", s)] = 2
                /\ \A c \in CategorySet : puts[CategoryCheckpointPath(c, s)] >= 1
                /\ \A h \in SrcBuckets(s) : puts[BucketPath(h)] = 1
    /\ MirrorReturnedNil => puts[rootHASPath] = 1

\* The root manifest has been written after two checkpoints and a bucket.
C2_Witness ==
    /\ puts[rootHASPath] = 1
    /\ RangeSize(rng) >= 2
    /\ \E h \in Hashes : puts[BucketPath(h)] = 1

\* C8: the destination after a second Mirror of the same source and range
\* is identical, path by path and byte by byte, to the destination as the
\* first Mirror left it.
C8_MirrorIdempotent == nMirror = 2 => dst = snap

\* Two Mirrors of a non-empty range have returned, over a destination that
\* held other bytes before.
C8_Witness ==
    /\ nMirror = 2 /\ RangeSize(rng) >= 1
    /\ \E s \in CheckpointSet(rng) : SrcBuckets(s) # {}
    /\ dst[rootHASPath].bytes = "indented"

\* C9: after Mirror returns, the root manifest at the destination declares
\* the clamp of the requested range against the source's root range, and so
\* no checkpoint outside the mirrored range.
C9_RootRestrictedToClamp ==
    MirrorReturnedNil =>
        /\ GetRootHAS(dst).ok
        /\ CheckpointSet(HASRange(GetRootHAS(dst).has)) \subseteq CheckpointSet(rng)


(***************************************************************************)
(* The presence maps of the Archive.                                       *)
(***************************************************************************)
NoCheckpointFiles == [c \in CategorySet |-> [s \in Seqs |-> "unknown"]]

NoteCheckpointFileAbsent(cat, chk, present) ==
    [checkpointFiles EXCEPT ![cat][chk] = "false"]

\* arch.checkpointFiles[cat][chk] = present
NoteCheckpointFile(cat, chk, present) ==
    [checkpointFiles EXCEPT ![cat][chk] = IF present THEN "true" ELSE "false"]

\* arch.allBuckets[bucket] = true
NoteExistingBucket(bucket) == allBuckets \cup {bucket}

\* arch.referencedBuckets[bucket] = true
NoteReferencedBucket(bucket) == referencedBuckets \cup {bucket}

RECURSIVE MissingFrom(_, _)
MissingFrom(cat, chks) ==
    IF chks = <<>> THEN <<>>
    ELSE (IF checkpointFiles[cat][Head(chks)] = "unknown" THEN <<Head(chks)>> ELSE <<>>)
         \o MissingFrom(cat, Tail(chks))

CheckCheckpointFilesMissingNone(r) == [c \in CategorySet |-> <<>>]

CheckCheckpointFilesMissing(r) ==
    [c \in CategorySet |-> MissingFrom(c, Checkpoints(r))]

CheckBucketsMissing == {k \in referencedBuckets : k \notin allBuckets}

(***************************************************************************)
(* ScanCheckpoints.                                                        *)
(***************************************************************************)
errsCapacity == 10000

\* The listing requests, in the order the producer goroutine sends them.
Requests(r) ==
    LET pths == RangePaths(r)
        n == Len(pths) IN
    [i \in 1..(Len(Categories) * n) |->
        <<Categories[((i - 1) \div n) + 1], pths[((i - 1) % n) + 1]>>]

\* The checkpoints ListCategoryCheckpoints parses out of a listing.
ListCategoryCheckpoints(cat, pth) == {p[3] : p \in ListFiles(dst, cat, pth)}

SeqRange(q) == {q[i] : i \in 1..Len(q)}

\* ScanCheckpoints up to the start of the worker pool.
ScanCheckpointsStart ==
    /\ ~fatal /\ pc = "sc_start"
    /\ LET r == GetRootHAS(dst) IN
       IF ~r.ok
       THEN /\ scanErr' = "error" /\ pc' = ret
            /\ UNCHANGED <<queue, wpc, errs>>
       ELSE /\ queue' = Requests(Clamp(rng, HASRange(r.has)))
            /\ wpc' = [w \in Workers |-> "recv"]
            /\ errs' = <<>>
            /\ pc' = "sc_wait"
            /\ UNCHANGED scanErr
    /\ UNCHANGED <<storeVars, prog, rng, rootHAS, result, fatal, wix, whas, wbk,
                   wcat, mirrorVars, histVars, op, arg, ret, dst0, wreq, wch,
                   blist, bpc, archVars, repairVars, envVars, lockVars, chanVars>>

\* r, ok := <-req; if !ok { break }
\* ch, e := arch.ListCategoryCheckpoints(r.category, r.pathprefix); errs <- e
\* A failed listing returns a nil channel, and the `for n := range ch` that
\* follows then blocks for ever (position "rangeNil").  The send on errs
\* blocks while the channel is full.
ScanList(w) ==
    /\ ~fatal /\ pc = "sc_wait" /\ wpc[w] = "recv"
    /\ IF queue = <<>>
       THEN /\ wpc' = [wpc EXCEPT ![w] = "done"]
            /\ UNCHANGED <<queue, wreq, wch, errs>>
       ELSE /\ Len(errs) < errsCapacity
            /\ wreq' = [wreq EXCEPT ![w] = Head(queue)]
            /\ queue' = Tail(queue)
            /\ IF Head(queue) \in faults
               THEN /\ errs' = Append(errs, "error")
                    /\ wpc' = [wpc EXCEPT ![w] = "rangeNil"]
                    /\ UNCHANGED wch
               ELSE /\ errs' = Append(errs, "nil")
                    /\ wch' = [wch EXCEPT ![w] =
                                 ListCategoryCheckpoints(Head(queue)[1], Head(queue)[2])]
                    /\ wpc' = [wpc EXCEPT ![w] = "range"]
    /\ UNCHANGED <<storeVars, mainVars, wix, whas, wbk, wcat, mirrorVars,
                   histVars, callVars, blist, bpc, archVars, repairVars, envVars, lockVars, chanVars>>

\* One turn of: for n := range ch { tick <- true; NoteCheckpointFile(..., true) }
\* The listing delivers its paths in any order; the loop ends when the
\* channel is closed.
ScanNote(w) ==
    /\ ~fatal /\ pc = "sc_wait" /\ wpc[w] = "range"
    /\ IF wch[w] = {}
       THEN /\ wpc' = [wpc EXCEPT ![w] = "recv"]
            /\ wreq' = [wreq EXCEPT ![w] = <<"none", 0>>]
            /\ UNCHANGED <<wch, checkpointFiles>>
       ELSE \E n \in wch[w] :
               /\ wch' = [wch EXCEPT ![w] = @ \ {n}]
               /\ checkpointFiles' = NoteCheckpointFile(wreq[w][1], n, TRUE)
               /\ UNCHANGED <<wpc, wreq>>
    /\ UNCHANGED <<storeVars, mainVars, queue, wix, whas, wbk, wcat, mirrorVars,
                   histVars, callVars, errs, blist, bpc, allBuckets,
                   referencedBuckets, repairVars, envVars, lockVars, chanVars>>

\* wg.Wait(); close(tick); close(errs); the first non-nil error is returned.
ScanCheckpointsReturn ==
    /\ ~fatal /\ pc = "sc_wait" /\ wgWait
    /\ scanErr' = IF "error" \in SeqRange(errs) THEN "error" ELSE "nil"
    /\ pc' = ret
    /\ UNCHANGED <<storeVars, prog, rng, rootHAS, result, fatal, poolVars,
                   mirrorVars, histVars, op, arg, ret, dst0, scanVars, archVars,
                   repairVars, envVars, lockVars, chanVars>>

ScanCheckpointsWorker(w) ==
    \/ ScanList(w)
    \/ ScanNote(w)

ScanCheckpoints ==
    \/ ScanCheckpointsStart
    \/ \E w \in Workers : ScanCheckpointsWorker(w)
    \/ ScanCheckpointsReturn

(***************************************************************************)
(* ScanBuckets.                                                            *)
(***************************************************************************)
\* The orders in which a Go map may be iterated.
Orders(S) ==
    {q \in [1..Cardinality(S) -> S] :
        \A i, j \in 1..Cardinality(S) : i # j => q[i] # q[j]}

\* The checkpoints the Archive holds a history manifest for.
KnownHistory == {k \in Seqs : checkpointFiles["history"][k] = "true"}

BucketListingPrefix == <<"bucket", 0>>

\* The hashes ListAllBucketHashes parses out of the listing of bucket/.
ListAllBucketHashes == {p[3] : p \in ListNamespace(dst, "bucket")}

\* ScanBuckets up to the start of the worker pool.
ScanBucketsStart ==
    /\ ~fatal /\ pc = "sb_start"
    /\ IF BucketListingPrefix \in faults
       THEN /\ scanErr' = "error" /\ pc' = ret
            /\ UNCHANGED <<queue, wpc, blist, bpc>>
       ELSE /\ \E seqs \in Orders(KnownHistory) : queue' = seqs
            /\ blist' = ListAllBucketHashes
            /\ bpc' = "listing"
            /\ wpc' = [w \in Workers |-> "recv"]
            /\ pc' = "sb_wait"
            /\ UNCHANGED scanErr
    /\ UNCHANGED <<storeVars, prog, rng, rootHAS, result, fatal, wix, whas, wbk,
                   wcat, mirrorVars, histVars, op, arg, ret, dst0, wreq, wch,
                   errs, archVars, repairVars, envVars, lockVars, chanVars>>

\* for b := range allBuckets { arch.NoteExistingBucket(b); tick <- true }
ScanBucketsLister ==
    /\ ~fatal /\ pc = "sb_wait" /\ bpc = "listing"
    /\ IF blist = {}
       THEN /\ bpc' = "done"
            /\ UNCHANGED <<blist, allBuckets>>
       ELSE \E b \in blist :
               /\ allBuckets' = NoteExistingBucket(b)
               /\ blist' = blist \ {b}
               /\ UNCHANGED bpc
    /\ UNCHANGED <<storeVars, mainVars, poolVars, mirrorVars, histVars, callVars,
                   wreq, wch, errs, checkpointFiles, referencedBuckets,
                   repairVars, envVars, lockVars, chanVars>>

\* ix, ok := <- req; if !ok { break }
\* has, e := arch.GetCheckpointHAS(ix); if e != nil { log.Fatal(e) }
\* (and tick <- true when the manifest names no bucket)
ScanBucketsGetHAS(w) ==
    /\ ~fatal /\ pc = "sb_wait" /\ wpc[w] = "recv"
    /\ IF queue = <<>>
       THEN /\ wpc' = [wpc EXCEPT ![w] = "done"]
            /\ UNCHANGED <<queue, whas, wbk, fatal>>
       ELSE LET r == GetCheckpointHAS(dst, Head(queue)) IN
            /\ queue' = Tail(queue)
            /\ IF ~r.ok
               THEN /\ fatal' = TRUE
                    /\ UNCHANGED <<wpc, whas, wbk>>
               ELSE /\ wbk' = [wbk EXCEPT ![w] = Buckets(r.has)]
                    /\ wpc' = [wpc EXCEPT ![w] =
                                 IF Buckets(r.has) = <<>> THEN "recv" ELSE "noteRef"]
                    /\ UNCHANGED <<fatal, whas>>
    /\ UNCHANGED <<storeVars, prog, pc, rng, rootHAS, result, wix, wcat,
                   mirrorVars, histVars, callVars, scanVars, archVars,
                   repairVars, envVars, lockVars, chanVars>>

\* One turn of: for _, bucket := range has.Buckets() { NoteReferencedBucket }
\* (and tick <- true after the last)
ScanBucketsNoteReferenced(w) ==
    /\ ~fatal /\ pc = "sb_wait" /\ wpc[w] = "noteRef"
    /\ referencedBuckets' = NoteReferencedBucket(Head(wbk[w]))
    /\ wbk' = [wbk EXCEPT ![w] = Tail(@)]
    /\ wpc' = [wpc EXCEPT ![w] = IF Tail(wbk[w]) = <<>> THEN "recv" ELSE "noteRef"]
    /\ UNCHANGED <<storeVars, mainVars, queue, wix, whas, wcat, mirrorVars,
                   histVars, callVars, scanVars, checkpointFiles, allBuckets,
                   repairVars, envVars, lockVars, chanVars>>

\* wg.Wait(); arch.ReportBucketStats(); close(tick); return nil
ScanBucketsReturn ==
    /\ ~fatal /\ pc = "sb_wait" /\ wgWait /\ bpc = "done"
    /\ scanErr' = "nil"
    /\ pc' = ret
    /\ UNCHANGED <<storeVars, prog, rng, rootHAS, result, fatal, poolVars,
                   mirrorVars, histVars, op, arg, ret, dst0, scanVars, archVars,
                   repairVars, envVars, lockVars, chanVars>>

ScanBucketsWorker(w) ==
    \/ ScanBucketsGetHAS(w)
    \/ ScanBucketsNoteReferenced(w)

ScanBuckets ==
    \/ ScanBucketsStart
    \/ ScanBucketsLister
    \/ \E w \in Workers : ScanBucketsWorker(w)
    \/ ScanBucketsReturn

(***************************************************************************)
(* Scan.                                                                   *)
(***************************************************************************)
\* The call of Scan(rng), up to the call of ScanCheckpoints.
ScanStart ==
    /\ ~fatal /\ pc = "idle" /\ prog # <<>> /\ Head(prog).op = "Scan"
    /\ prog' = Tail(prog)
    /\ op' = "Scan" /\ arg' = Head(prog).rng /\ rng' = Head(prog).rng
    /\ dst0' = dst
    /\ puts' = NoPuts /\ copyCalls' = NoCopies
    /\ result' = "running"
    /\ pc' = "sc_start" /\ ret' = "scan_mid"
    /\ UNCHANGED <<storeVars, rootHAS, fatal, poolVars, mirrorVars, snap, nMirror,
                   scanErr, scanVars, archVars, repairVars, envVars, lockVars, chanVars>>

\* e := arch.ScanCheckpoints(rng); if e != nil { return e }
ScanMid ==
    /\ ~fatal /\ pc = "scan_mid"
    /\ IF scanErr # "nil"
       THEN /\ result' = "error" /\ pc' = "idle"
            /\ UNCHANGED ret
       ELSE /\ pc' = "sb_start" /\ ret' = "scan_end"
            /\ UNCHANGED result
    /\ UNCHANGED <<storeVars, prog, rng, rootHAS, fatal, poolVars, mirrorVars,
                   histVars, op, arg, scanErr, dst0, scanVars, archVars,
                   repairVars, envVars, lockVars, chanVars>>

\* return arch.ScanBuckets()
ScanEnd ==
    /\ ~fatal /\ pc = "scan_end"
    /\ result' = scanErr
    /\ pc' = "idle"
    /\ UNCHANGED <<storeVars, prog, rng, rootHAS, fatal, poolVars, mirrorVars,
                   histVars, callVars, scanVars, archVars, repairVars, envVars, lockVars, chanVars>>

Scan ==
    \/ ScanStart
    \/ ScanMid
    \/ ScanEnd
    \/ ScanCheckpoints
    \/ ScanBuckets


(***************************************************************************)
(* Repair.                                                                 *)
(***************************************************************************)
\* arch.ClearCachedInfo()
ClearedCheckpointFiles == NoCheckpointFiles

\* Repair up to the first call of ScanCheckpoints.
RepairStart ==
    /\ ~fatal /\ pc = "idle" /\ prog # <<>> /\ Head(prog).op = "Repair"
    /\ prog' = Tail(prog)
    /\ op' = "Repair" /\ arg' = Head(prog).rng
    /\ dst0' = dst
    /\ puts' = NoPuts /\ copyCalls' = NoCopies
    /\ LET r == GetRootHAS(dst) IN
       IF ~r.ok
       THEN /\ result' = "error"
            /\ UNCHANGED <<pc, rng, ret>>
       ELSE /\ rng' = Clamp(Head(prog).rng, HASRange(r.has))
            /\ pc' = "sc_start" /\ ret' = "repair_check"
            /\ result' = "running"
    /\ UNCHANGED <<storeVars, rootHAS, fatal, poolVars, mirrorVars, snap, nMirror,
                   scanErr, scanVars, archVars, repairVars, envVars, lockVars, chanVars>>

\* if e != nil { return e }
\* missingCheckpointFiles := dst.CheckCheckpointFilesMissing(rng)
RepairCheck ==
    /\ ~fatal /\ pc = "repair_check"
    /\ IF scanErr # "nil"
       THEN /\ result' = "error" /\ pc' = "idle"
            /\ UNCHANGED repairVars
       ELSE /\ todo' = CheckCheckpointFilesMissing(rng)
            /\ curCat' = "none"
            /\ repairedHistory' = FALSE
            /\ pc' = "repair_files"
            /\ UNCHANGED <<result, btodo>>
    /\ UNCHANGED <<storeVars, prog, rng, rootHAS, fatal, poolVars, mirrorVars,
                   histVars, callVars, scanVars, archVars, envVars, lockVars, chanVars>>

\* One copy of the loops over missingCheckpointFiles: a Go map is ranged over
\* in any order of its categories, each category's list in its own order.
RepairCopyFile ==
    /\ ~fatal /\ pc = "repair_files"
    /\ \E cat \in CategorySet :
          /\ curCat \in {"none", cat}
          /\ todo[cat] # <<>>
          /\ LET pth == CategoryCheckpointPath(cat, Head(todo[cat]))
                 r == copyPath(src, dst, pth) IN
             IF ~r.ok \/ PutFails(pth)
             THEN /\ fatal' = TRUE
                  /\ UNCHANGED <<dst, puts, todo, curCat, repairedHistory>>
             ELSE /\ dst' = r.dst
                  /\ puts' = Put1(pth)
                  /\ todo' = [todo EXCEPT ![cat] = Tail(@)]
                  /\ curCat' = IF Tail(todo[cat]) = <<>> THEN "none" ELSE cat
                  /\ repairedHistory' = (repairedHistory \/ cat = "history")
                  /\ UNCHANGED fatal
    /\ UNCHANGED <<src, prog, pc, rng, rootHAS, result, poolVars, mirrorVars,
                   copyCalls, snap, nMirror, callVars, scanVars, archVars, btodo,
                   envVars, lockVars, chanVars>>

RepairRescanNever(repaired) == FALSE

\* if repairedHistory { dst.ClearCachedInfo(); e = dst.ScanCheckpoints(rng) }
RepairRescanWhen(repaired) == repaired

RepairFilesDone ==
    /\ ~fatal /\ pc = "repair_files"
    /\ \A cat \in CategorySet : todo[cat] = <<>>
    /\ IF RepairRescanWhen(repairedHistory)
       THEN /\ checkpointFiles' = ClearedCheckpointFiles
            /\ allBuckets' = {}
            /\ referencedBuckets' = {}
            /\ pc' = "sc_start" /\ ret' = "repair_rescanned"
       ELSE /\ pc' = "sb_start" /\ ret' = "repair_buckets"
            /\ UNCHANGED archVars
    /\ UNCHANGED <<storeVars, prog, rng, rootHAS, result, fatal, poolVars,
                   mirrorVars, histVars, op, arg, scanErr, dst0, scanVars,
                   repairVars, envVars, lockVars, chanVars>>

\* if e != nil { return e }; e = dst.ScanBuckets()
RepairRescanned ==
    /\ ~fatal /\ pc = "repair_rescanned"
    /\ IF scanErr # "nil"
       THEN /\ result' = "error" /\ pc' = "idle"
            /\ UNCHANGED ret
       ELSE /\ pc' = "sb_start" /\ ret' = "repair_buckets"
            /\ UNCHANGED result
    /\ UNCHANGED <<storeVars, prog, rng, rootHAS, fatal, poolVars, mirrorVars,
                   histVars, op, arg, scanErr, dst0, scanVars, archVars,
                   repairVars, envVars, lockVars, chanVars>>

\* if e != nil { return e }; missingBuckets := dst.CheckBucketsMissing()
RepairBuckets ==
    /\ ~fatal /\ pc = "repair_buckets"
    /\ IF scanErr # "nil"
       THEN /\ result' = "error" /\ pc' = "idle"
            /\ UNCHANGED btodo
       ELSE /\ btodo' = CheckBucketsMissing
            /\ pc' = "repair_copy_buckets"
            /\ UNCHANGED result
    /\ UNCHANGED <<storeVars, prog, rng, rootHAS, fatal, poolVars, mirrorVars,
                   histVars, callVars, scanVars, archVars, todo, curCat,
                   repairedHistory, envVars, lockVars, chanVars>>

\* One turn of: for bkt, _ := range missingBuckets { copyPath(src, dst, pth) }
RepairCopyBucket ==
    /\ ~fatal /\ pc = "repair_copy_buckets"
    /\ \E bkt \in btodo :
          LET r == copyPath(src, dst, BucketPath(bkt)) IN
          /\ copyCalls' = [copyCalls EXCEPT ![bkt] = @ + 1]
          /\ IF ~r.ok \/ PutFails(BucketPath(bkt))
             THEN /\ fatal' = TRUE
                  /\ UNCHANGED <<dst, puts, btodo>>
             ELSE /\ dst' = r.dst
                  /\ puts' = Put1(BucketPath(bkt))
                  /\ btodo' = btodo \ {bkt}
                  /\ UNCHANGED fatal
    /\ UNCHANGED <<src, prog, pc, rng, rootHAS, result, poolVars, mirrorVars,
                   snap, nMirror, callVars, scanVars, archVars, todo, curCat,
                   repairedHistory, envVars, lockVars, chanVars>>

\* return nil
RepairReturn ==
    /\ ~fatal /\ pc = "repair_copy_buckets"
    /\ btodo = {}
    /\ result' = "nil"
    /\ pc' = "idle"
    /\ UNCHANGED <<storeVars, prog, rng, rootHAS, fatal, poolVars, mirrorVars,
                   histVars, callVars, scanVars, archVars, repairVars, envVars, lockVars, chanVars>>

Repair ==
    \/ RepairStart
    \/ RepairCheck
    \/ RepairCopyFile
    \/ RepairFilesDone
    \/ RepairRescanned
    \/ RepairBuckets
    \/ RepairCopyBucket
    \/ RepairReturn
    \/ ScanCheckpoints
    \/ ScanBuckets


(***************************************************************************)
(* Scan on a fresh Archive handle, and a second Scan on the same handle.   *)
(***************************************************************************)
Damaged(store, deleted) ==
    [p \in AllPaths |-> IF p \in deleted THEN Absent ELSE store[p]]

\* The store with the files at `paths` replaced by bytes that are no manifest.
Corrupted(store, paths) ==
    [p \in AllPaths |-> IF p \in paths THEN Xdr("garbage") ELSE store[p]]

HistoryPaths == {CategoryCheckpointPath("history", s) : s \in Seqs}

PathsOf(chk) == {CategoryCheckpointPath(c, chk) : c \in CategorySet}

ScanDamage ==
    {{}, {BucketPath(1)}, BucketPaths,
     {CategoryCheckpointPath("history", FirstCheckpoint)},
     {CategoryCheckpointPath("ledger", LastCheckpoint)}, {rootHASPath}}

ScanPrograms ==
    {<<Call("Scan", FirstOnly)>>, <<Call("Scan", FullRange)>>,
     <<Call("Scan", LastOnly)>>,
     <<Call("Scan", FullRange), Call("Scan", FirstOnly)>>,
     <<Call("Scan", LastOnly), Call("Scan", FirstOnly)>>}

ListingFaults ==
    {{<<"history", CheckpointPrefix(FirstCheckpoint)>>},
     {<<"scp", CheckpointPrefix(LastCheckpoint)>>},
     {BucketListingPrefix}}

InitScan ==
    /\ InitCommon
    /\ src = EmptyStore
    /\ \/ /\ \E layout \in {"shared", "disjoint"}, deleted \in ScanDamage :
                dst = Damaged(ArchiveStore(LastCheckpoint, layout, {}, "mirror"),
                              deleted)
          /\ prog \in ScanPrograms
          /\ faults = {}
       \/ /\ dst = ArchiveStore(LastCheckpoint, "shared", {}, "mirror")
          /\ \E r \in {FirstOnly, FullRange} : prog = <<Call("Scan", r)>>
          /\ faults \in ListingFaults
       \/ /\ dst = Corrupted(ArchiveStore(LastCheckpoint, "disjoint", {}, "mirror"),
                              {CategoryCheckpointPath("history", LastCheckpoint)})
          /\ \E r \in {FirstOnly, FullRange} : prog = <<Call("Scan", r)>>
          /\ faults = {}
    /\ snap = dst /\ dst0 = dst

NextScan == Scan

SpecScan == InitScan /\ [][NextScan]_vars

(***************************************************************************)
(* Repair of a damaged copy of the source.                                 *)
(***************************************************************************)
RepairDamage ==
    {{}, ScpPaths,
     {CategoryCheckpointPath("ledger", FirstCheckpoint), BucketPath(1)},
     PathsOf(FirstCheckpoint) \cup BucketPaths,
     {CategoryCheckpointPath("history", LastCheckpoint), BucketPath(MaxBuckets)},
     {rootHASPath}}

\* The repairs the model tries: a damaged copy of a complete source; a
\* source and a destination that both lack the scp files; a destination
\* whose root manifest ends before the requested range does.
InitRepair ==
    /\ InitCommon
    /\ \/ /\ \E layout \in {"shared", "disjoint"} :
                /\ src = ArchiveStore(LastCheckpoint, layout, {}, "source")
                /\ \E deleted \in RepairDamage : dst = Damaged(src, deleted)
          /\ \E r \in {FirstOnly, FullRange} : prog = <<Call("Repair", r)>>
       \/ /\ src = ArchiveStore(LastCheckpoint, "shared", ScpPaths, "source")
          /\ dst = src
          /\ prog = <<Call("Repair", FullRange)>>
       \/ /\ src = ArchiveStore(LastCheckpoint, "shared", {}, "source")
          /\ \E deleted \in {{}, {CategoryCheckpointPath("ledger", FirstCheckpoint)}} :
                dst = Damaged(ArchiveStore(FirstCheckpoint, "shared", {}, "source"),
                              deleted)
          /\ prog = <<Call("Repair", FullRange)>>
    /\ faults = {}
    /\ snap = dst /\ dst0 = dst

NextRepair == Repair

SpecRepair == InitRepair /\ [][NextRepair]_vars

(***************************************************************************)
(* Mirror into an empty destination, then Scan of the destination.         *)
(***************************************************************************)
InitMirrorScan ==
    /\ InitCommon
    /\ \E layout \in {"shared", "disjoint"},
          missing \in {{}, ScpPaths, {CategoryCheckpointPath("scp", LastCheckpoint)}} :
          src = ArchiveStore(LastCheckpoint, layout, missing, "source")
    /\ dst = EmptyStore
    /\ \E r \in {FirstOnly, FullRange, LastOnly} :
          prog = <<Call("Mirror", r), Call("Scan", r)>>
    /\ faults = {}
    /\ snap = dst /\ dst0 = dst

NextMirrorScan ==
    \/ NextMirror
    \/ Scan

SpecMirrorScan == InitMirrorScan /\ [][NextMirrorScan]_vars

(***************************************************************************)
(* A cancel signal from outside, raised while an operation runs.  The Go   *)
(* code has no parameter, channel or context that carries one: the signal  *)
(* is the environment's, and no action of the program reads it.            *)
(***************************************************************************)
Cancel ==
    /\ ~cancelled /\ ~fatal /\ pc # "idle"
    /\ cancelled' = TRUE
    /\ UNCHANGED <<storeVars, mainVars, poolVars, mirrorVars, histVars, callVars,
                   scanVars, archVars, repairVars, faults, lockVars, chanVars>>

NextCancel ==
    \/ NextMirrorScan
    \/ Cancel

SpecCancel == InitMirrorScan /\ [][NextCancel]_vars

(***************************************************************************)
(* Claims about Mirror followed by Scan, Repair, Scan and cancellation.    *)
(***************************************************************************)
\* Store `store` is complete over range r: for each checkpoint of r the
\* files of the required categories are present, the history manifest
\* decodes, and every bucket it references is present.
CompleteOver(store, r) ==
    \A s \in CheckpointSet(r) :
        /\ \A c \in CategorySet :
              categoryRequired(c) => Present(store, CategoryCheckpointPath(c, s))
        /\ GetCheckpointHAS(store, s).ok
        /\ \A h \in BucketSet(GetCheckpointHAS(store, s).has) :
              Present(store, BucketPath(h))

\* C3: when the source is complete over R (scp files may be absent),
\* Mirror(S, D, R) is not ended by a fatal error, and after the Scan(R) of D
\* that follows no file of a required category and no bucket is missing.
C3_MirrorThenScanFindsNothingMissing ==
    (op \in {"Mirror", "Scan"} /\ CompleteOver(src, arg)) =>
        /\ ~fatal
        /\ (op = "Scan" /\ pc = "idle" /\ result = "nil") =>
              /\ \A c \in CategorySet :
                    categoryRequired(c) => CheckCheckpointFilesMissing(arg)[c] = <<>>
              /\ CheckBucketsMissing = {}

\* C4: when the destination is already complete over R (scp files may be
\* absent), Repair(S, D, R) puts nothing to the destination.
C4_RepairOfCompleteIsNoOp ==
    (op = "Repair" /\ CompleteOver(dst0, arg)) => puts = NoPuts

RepairReturnedNil == op = "Repair" /\ pc = "idle" /\ result = "nil"

\* The range Repair works on: the requested one clamped to the range of the
\* destination's root manifest.
RepairClamp == Clamp(arg, HASRange(GetRootHAS(dst0).has))

\* The destination holds every checkpoint file of r, the ones that were
\* missing as the source has them, and every bucket a history manifest of r
\* references.
Restored(r) ==
    \A s \in CheckpointSet(r) :
        /\ \A c \in CategorySet :
              LET pth == CategoryCheckpointPath(c, s) IN
              /\ Present(dst, pth)
              /\ ~Present(dst0, pth) => dst[pth] = src[pth]
        /\ GetCheckpointHAS(dst, s).ok
        /\ \A h \in BucketSet(GetCheckpointHAS(dst, s).has) :
              Present(dst, BucketPath(h))

\* C5 as stated: when Repair(S, D, R) returns and S is complete over R, D
\* holds every checkpoint file of R and every bucket a history manifest of
\* R references.
C5_RepairRestoresRequestedRange ==
    (RepairReturnedNil /\ CompleteOver(src, arg)) => Restored(arg)

\* C5, amended: when Repair(S, D, R) returns nil and S is complete over the
\* clamp of R against the range of D's root manifest, D holds every
\* checkpoint file of that clamp and every bucket a history manifest of it
\* references, the buckets referenced only by manifests this Repair
\* restored included.
C5_RepairRestoresClampedRange ==
    (RepairReturnedNil /\ CompleteOver(src, RepairClamp)) => Restored(RepairClamp)

\* Repair has returned after restoring a history manifest and a bucket that
\* no manifest the destination held before references.
C5_Witness ==
    /\ RepairReturnedNil /\ CompleteOver(src, RepairClamp)
    /\ \E s \in CheckpointSet(RepairClamp) :
          /\ ~Present(dst0, CategoryCheckpointPath("history", s))
          /\ \E h \in BucketSet(GetCheckpointHAS(dst, s).has) :
                /\ ~Present(dst0, BucketPath(h))
                /\ Present(dst, BucketPath(h))
                /\ \A k \in Seqs :
                      GetCheckpointHAS(dst0, k).ok =>
                          h \notin BucketSet(GetCheckpointHAS(dst0, k).has)

\* C6: a failed listing does not stop ScanCheckpoints: while it runs, some
\* step of it (a worker's or the return after the join) can always be
\* taken, and the Scan that called it returns the listing error.
C6_ScanCheckpointsSurvivesListFailure ==
    /\ pc = "sc_wait" => ENABLED ScanCheckpoints
    /\ (op = "Scan" /\ pc = "idle" /\ "error" \in SeqRange(errs)) => result = "error"

\* The buckets the history manifests of the checkpoints of r that the
\* store holds reference.
ReferencedIn(store, r) ==
    UNION {BucketSet(GetCheckpointHAS(store, s).has) :
              s \in {k \in CheckpointSet(r) : GetCheckpointHAS(store, k).ok}}

\* C7: after Scan(range) returns nil, referencedBuckets is the union of the
\* buckets of the history manifests of the checkpoints inside range, and
\* CheckBucketsMissing is that union less the buckets present in storage.
C7_ReferencedBucketsAreThoseOfRange ==
    (op = "Scan" /\ pc = "idle" /\ result = "nil") =>
        /\ referencedBuckets = ReferencedIn(dst, arg)
        /\ CheckBucketsMissing =
              {h \in ReferencedIn(dst, arg) : ~Present(dst, BucketPath(h))}

\* C10: once a cancel signal is raised no worker receives another request,
\* and the operation that was running returns a cancellation error.
C10_CancelHonoured ==
    [][cancelled =>
          /\ (pc' = pc /\ pc \in {"mirror_wait", "sc_wait", "sb_wait"}) =>
                queue' = queue
          /\ (pc # "idle" /\ pc' = "idle") => result' = "cancelled"]_vars

(***************************************************************************)
(* Claims about failures inside the scans and inside Mirror, about         *)
(* ReportMissing, and about the order and the frame of Repair's writes.    *)
(***************************************************************************)
\* The checkpoints whose history file the store holds and that decodes.
Decodable(store) == {s \in Seqs : GetCheckpointHAS(store, s).ok}

\* C11: a history manifest that cannot be fetched or decoded does not
\* abort ScanBuckets: the process is not ended while ScanBuckets runs, and
\* after the Scan returns the checkpoint has contributed no referenced
\* bucket.
C11_ScanBucketsSkipsBadHAS ==
    /\ pc = "sb_wait" => ~fatal
    /\ (op = "Scan" /\ pc = "idle" /\ result = "nil") =>
          referencedBuckets \subseteq
              UNION {BucketSet(GetCheckpointHAS(dst, s).has) : s \in Decodable(dst)}

(***************************************************************************)
(* ReportMissing.  The function is sequential and calls no scan: it reads  *)
(* the root manifest, clamps the range, and reads the presence maps as     *)
(* they stand.  todo and btodo hold its locals missingCheckpointFiles and  *)
(* missingBuckets.                                                         *)
(***************************************************************************)
ReportMissing ==
    /\ ~fatal /\ pc = "idle" /\ prog # <<>> /\ Head(prog).op = "ReportMissing"
    /\ prog' = Tail(prog)
    /\ op' = "ReportMissing" /\ arg' = Head(prog).rng
    /\ dst0' = dst
    /\ puts' = NoPuts /\ copyCalls' = NoCopies
    /\ LET r == GetRootHAS(dst) IN
       IF ~r.ok
       THEN /\ result' = "error"
            /\ UNCHANGED <<rng, todo, btodo>>
       ELSE /\ rng' = Clamp(Head(prog).rng, HASRange(r.has))
            /\ todo' = CheckCheckpointFilesMissing(Clamp(Head(prog).rng, HASRange(r.has)))
            /\ btodo' = CheckBucketsMissing
            /\ result' = "nil"
    /\ UNCHANGED <<storeVars, pc, rootHAS, fatal, poolVars, mirrorVars, snap,
                   nMirror, ret, scanErr, scanVars, archVars, curCat,
                   repairedHistory, envVars, lockVars, chanVars>>

\* The checkpoints ReportMissing logs as missing, by category: the gaps of
\* a category that is not required are skipped.
ReportedMissing ==
    [c \in CategorySet |-> IF categoryRequired(c) THEN todo[c] ELSE <<>>]

\* ReportMissing on a fresh handle, and after a Scan on the same handle.
InitReport ==
    /\ InitCommon
    /\ src = EmptyStore
    /\ \E layout \in {"shared", "disjoint"}, deleted \in ScanDamage :
          dst = Damaged(ArchiveStore(LastCheckpoint, layout, {}, "mirror"), deleted)
    /\ \E r \in {FirstOnly, FullRange} :
          prog \in {<<Call("ReportMissing", r)>>,
                    <<Call("Scan", r), Call("ReportMissing", r)>>}
    /\ faults = {}
    /\ snap = dst /\ dst0 = dst

NextReport ==
    \/ Scan
    \/ ReportMissing

SpecReport == InitReport /\ [][NextReport]_vars

\* The handle is as Connect left it: no scan has noted anything.
FreshHandle ==
    /\ checkpointFiles = NoCheckpointFiles
    /\ allBuckets = {} /\ referencedBuckets = {}

\* C12: ReportMissing(range) on a handle on which no scan has run, over an
\* archive complete in range, reports no missing checkpoint file and no
\* missing bucket, and puts nothing.  (ReportMissing leaves the presence
\* maps as it found them, so the handle it was invoked on was fresh exactly
\* when the handle is fresh after it.)
C12_ReportMissingScansFirst ==
    (op = "ReportMissing" /\ pc = "idle" /\ result = "nil"
        /\ FreshHandle /\ CompleteOver(dst, arg)) =>
        /\ \A c \in CategorySet : ReportedMissing[c] = <<>>
        /\ btodo = {}
        /\ puts = NoPuts

\* Repair has copied a bucket in the running invocation.
RepairCopiedBucket == op = "Repair" /\ \E h \in Hashes : copyCalls[h] > 0

\* C13: once Repair has copied a bucket, every checkpoint file of the
\* clamped range is in the destination and none is left to copy, the scans
\* have finished (every worker and the bucket lister are done), and, when a
\* history manifest was restored, the rescan that followed ClearCachedInfo
\* has noted every history manifest of the range.
C13_BucketsAfterFilesAndRescan ==
    RepairCopiedBucket =>
        /\ pc \in {"repair_copy_buckets", "idle"}
        /\ \A c \in CategorySet : todo[c] = <<>>
        /\ \A s \in CheckpointSet(rng) : \A c \in CategorySet :
              Present(dst, CategoryCheckpointPath(c, s))
        /\ wgWait /\ bpc = "done" /\ queue = <<>> /\ blist = {}
        /\ \A s \in CheckpointSet(rng) : checkpointFiles["history"][s] = "true"

\* Repair has restored a history manifest and, after it, copied a bucket.
C13_Witness ==
    /\ RepairCopiedBucket /\ repairedHistory
    /\ \E s \in CheckpointSet(rng) :
          ~Present(dst0, CategoryCheckpointPath("history", s))

\* The paths Repair may write according to C14: the checkpoint files of the
\* clamped range and the buckets the history manifests of the range
\* reference.
RepairablePaths ==
    {CategoryCheckpointPath(c, s) : c \in CategorySet, s \in CheckpointSet(rng)}
        \cup {BucketPath(h) : h \in ReferencedIn(dst, rng)}

\* C14: every path Repair has put was absent from the destination when
\* Repair started, is not the root manifest, and is a checkpoint file of
\* the clamped range or a bucket a history manifest of the range
\* references.
C14_RepairWritesOnlyMissingOfRange ==
    op = "Repair" =>
        \A p \in AllPaths :
            puts[p] > 0 =>
                /\ ~Present(dst0, p)
                /\ p # rootHASPath
                /\ p \in RepairablePaths

\* The paths a Mirror of range r reads from the source: the category files
\* of each checkpoint of r and the buckets its manifest references.
MirrorNeeds(r) ==
    {CategoryCheckpointPath(c, s) : c \in CategorySet, s \in CheckpointSet(r)}
        \cup {BucketPath(h) : h \in UNION {SrcBuckets(s) : s \in CheckpointSet(r)}}

\* C15: a Mirror in which a worker's Get or Put failed has ended without
\* returning and without a write of the destination's root manifest; and a
\* Mirror whose source lacks a file it has to read never writes the root.
C15_MirrorFailureWritesNoRoot ==
    /\ (op = "Mirror" /\ fatal) =>
          /\ pc = "mirror_wait"
          /\ puts[rootHASPath] = 0
          /\ dst[rootHASPath] = dst0[rootHASPath]
    /\ (op = "Mirror" /\ GetRootHAS(src).ok
           /\ \E p \in MirrorNeeds(rng) : ~Present(src, p) \/ PutFails(p)) =>
          puts[rootHASPath] = 0

\* A worker's copy has failed while another worker was in the middle of a
\* checkpoint, after files had been put.
C15_Witness ==
    /\ op = "Mirror" /\ fatal
    /\ \E w1, w2 \in Workers :
          /\ w1 # w2
          /\ wpc[w1] \notin {"recv", "done"}
          /\ wpc[w2] \notin {"recv", "done"}
    /\ \E p \in AllPaths : puts[p] > 0

\* A scan is running: the caller is inside ScanCheckpoints or ScanBuckets.
Scanning == pc \in {"sc_start", "sc_wait", "sb_start", "sb_wait"}

\* C16: in every step taken while a scan runs, each entry of
\* checkpointFiles that was there stays there with the value true, and an
\* entry that appears has the value true: none is removed, none is false.
C16_CheckpointFilesMonotoneDuringScan ==
    [][Scanning =>
          \A c \in CategorySet : \A s \in Seqs :
              /\ checkpointFiles[c][s] = "true" => checkpointFiles'[c][s] = "true"
              /\ checkpointFiles'[c][s] # "false"]_vars

\* A scan is running with workers still listing, one file noted and
\* another not yet.
C16_Witness ==
    /\ pc = "sc_wait"
    /\ \E w \in Workers : wpc[w] = "range" /\ wch[w] # {}
    /\ \E c \in CategorySet : \E s \in Seqs : checkpointFiles[c][s] = "true"

(***************************************************************************)
(* The archive mutex.  Every method of Archive that touches the presence   *)
(* maps starts with arch.mutex.Lock() and touches them only until its      *)
(* Unlock; mutex is the goroutine that holds the lock (0: none), and       *)
(* gcall[g] the method whose map access goroutine g is inside.  A          *)
(* goroutine blocked in Lock() changes nothing and has no state of its     *)
(* own.                                                                    *)
(***************************************************************************)
\* The methods each goroutine calls while a scan or a repair runs.
Methods(g) ==
    IF g \in Workers THEN {"NoteCheckpointFile", "NoteReferencedBucket"}
    ELSE IF g = Lister THEN {"NoteExistingBucket"}
    ELSE IF g = Ticker THEN {"ReportCheckpointStats", "ReportBucketStats"}
    ELSE {"ClearCachedInfo", "CheckCheckpointFilesMissing", "CheckBucketsMissing",
          "ScanBuckets"}

TakesMutexExceptReports(m) == m \notin {"ReportCheckpointStats", "ReportBucketStats"}

\* Whether method m takes the archive mutex before it touches the maps.
TakesMutex(m) == TRUE

\* arch.mutex.Lock(), and the method is inside its access to the maps.
ArchLock(g, m) ==
    /\ gcall[g] = "none"
    /\ gcall' = [gcall EXCEPT ![g] = m]
    /\ IF TakesMutex(m)
       THEN mutex = 0 /\ mutex' = g
       ELSE UNCHANGED mutex
    /\ UNCHANGED <<storeVars, mainVars, poolVars, mirrorVars, histVars, callVars,
                   scanVars, archVars, repairVars, envVars, chanVars>>

\* The access itself, and arch.mutex.Unlock().  The scan workers of the
\* model note files of the first and the last category only.
ArchUnlock(g) ==
    /\ gcall[g] # "none"
    /\ gcall' = [gcall EXCEPT ![g] = "none"]
    /\ mutex' = IF mutex = g THEN 0 ELSE mutex
    /\ CASE gcall[g] = "NoteCheckpointFile" ->
              /\ \E cat \in {Categories[1], Categories[Len(Categories)]}, chk \in Seqs :
                    checkpointFiles' = NoteCheckpointFile(cat, chk, TRUE)
              /\ UNCHANGED <<allBuckets, referencedBuckets>>
         [] gcall[g] = "NoteExistingBucket" ->
              /\ \E b \in Hashes : allBuckets' = NoteExistingBucket(b)
              /\ UNCHANGED <<checkpointFiles, referencedBuckets>>
         [] gcall[g] = "NoteReferencedBucket" ->
              /\ \E b \in Hashes : referencedBuckets' = NoteReferencedBucket(b)
              /\ UNCHANGED <<checkpointFiles, allBuckets>>
         [] gcall[g] = "ClearCachedInfo" ->
              /\ checkpointFiles' = ClearedCheckpointFiles
              /\ allBuckets' = {}
              /\ referencedBuckets' = {}
         [] OTHER -> UNCHANGED archVars
    /\ UNCHANGED <<storeVars, mainVars, poolVars, mirrorVars, histVars, callVars,
                   scanVars, repairVars, envVars, chanVars>>

InitMutex ==
    /\ InitCommon
    /\ src = EmptyStore /\ dst = EmptyStore
    /\ prog = <<>>
    /\ faults = {}
    /\ snap = dst /\ dst0 = dst

NextMutex ==
    \/ \E g \in Goroutines : \E m \in Methods(g) : ArchLock(g, m)
    \/ \E g \in Goroutines : ArchUnlock(g)

SpecMutex == InitMutex /\ [][NextMutex]_vars

\* The goroutines inside an access to the presence maps.
InsideAccess == {g \in Goroutines : gcall[g] # "none"}

\* C17: at most one goroutine is inside an access to checkpointFiles,
\* allBuckets or referencedBuckets, and it holds the archive mutex.
C17_MapAccessUnderMutex ==
    /\ Cardinality(InsideAccess) <= 1
    /\ \A g \in InsideAccess : mutex = g

\* The tick logger reads the maps, which workers and the lister have
\* written, during a repair's scan.
C17_Witness ==
    /\ gcall[Ticker] = "ReportBucketStats" /\ mutex = Ticker
    /\ allBuckets # {} /\ referencedBuckets # {}
    /\ \E s \in Seqs : checkpointFiles["history"][s] = "true"

(***************************************************************************)
(* Mirror over a range that misses the source's root range (under Spec).   *)
(***************************************************************************)
Disjoint(a, b) == a.hi < b.lo \/ b.hi < a.lo

\* The current Mirror got the source's root HAS, and the range it was
\* asked for is disjoint from that HAS's range.
MirrorOfDisjointRange ==
    /\ op = "Mirror" /\ result \in {"running", "nil"}
    /\ Disjoint(arg, HASRange(rootHAS))

\* C18: when the requested range and the source's root range are disjoint
\* the clamped range is empty, and the Mirror puts nothing but the root
\* HAS, once, by the time it returns: no checkpoint HAS, no category file
\* and no bucket.
C18_DisjointRangeWritesOnlyRoot ==
    MirrorOfDisjointRange =>
        /\ Checkpoints(rng) = <<>>
        /\ \A p \in AllPaths \ {rootHASPath} : puts[p] = 0 /\ dst[p] = dst0[p]
        /\ copyCalls = NoCopies
        /\ puts[rootHASPath] = IF result = "nil" THEN 1 ELSE 0

C18_Witness ==
    /\ MirrorOfDisjointRange /\ MirrorReturnedNil
    /\ puts[rootHASPath] = 1
    /\ dst[rootHASPath] # dst0[rootHASPath]

(***************************************************************************)
(* The order of a checkpoint's manifest and its buckets in Mirror (under   *)
(* Spec).                                                                  *)
(***************************************************************************)
\* The checkpoints whose manifest the current Mirror has put.
PutCheckpoints == {s \in Seqs : puts[CategoryCheckpointPath("history", s)] > 0}

\* C19: once a Mirror worker has put the checkpoint HAS of seq, every
\* bucket that HAS references is in the destination, also the buckets the
\* worker skipped because another worker had entered them in bucketFetch.
C19_BucketsBeforeCheckpointHAS ==
    op = "Mirror" =>
        \A s \in PutCheckpoints :
            \A b \in SrcBuckets(s) : Present(dst, BucketPath(b))

(***************************************************************************)
(* The channels of ScanCheckpoints when no listing fails.  Every listing   *)
(* job sends one value, nil included, on errs, which nothing receives      *)
(* from before wg.Wait() has returned.  reqLeft counts the requests the    *)
(* producer goroutine has still to send on req and errsLen the values      *)
(* buffered in errs; what a listing holds does not matter here (tick is    *)
(* always received by the logger, and the mutex is always released), so    *)
(* the loop over the listing is left out.                                  *)
(***************************************************************************)
\* The last checkpoint of the first range whose listing jobs, one per
\* category and hex-prefix directory, outnumber the capacity of errs.
LongHi == (errsCapacity \div Len(Categories)) * DirSize + DirSize - 1

LongRange == MakeRange(FirstCheckpoint, LongHi)

\* ScanCheckpoints up to the start of the worker pool.
ErrsStart ==
    /\ ~fatal /\ pc = "idle" /\ prog # <<>> /\ Head(prog).op = "ScanCheckpoints"
    /\ prog' = Tail(prog)
    /\ op' = "ScanCheckpoints" /\ arg' = Head(prog).rng
    /\ LET r == GetRootHAS(dst) IN
       IF ~r.ok
       THEN /\ result' = "error"
            /\ UNCHANGED <<pc, rng, wpc, chanVars>>
       ELSE /\ rng' = Clamp(Head(prog).rng, HASRange(r.has))
            /\ reqLeft' = Len(Requests(Clamp(Head(prog).rng, HASRange(r.has))))
            /\ errsLen' = 0
            /\ wpc' = [w \in Workers |-> "recv"]
            /\ pc' = "sc_wait"
            /\ result' = "running"
    /\ UNCHANGED <<storeVars, rootHAS, fatal, queue, wix, whas, wbk, wcat,
                   mirrorVars, histVars, ret, scanErr, dst0, scanVars, archVars,
                   repairVars, envVars, lockVars>>

\* r, ok := <-req; if !ok { break }; ch, e := arch.ListCategoryCheckpoints(...)
ErrsRecv(w) ==
    /\ ~fatal /\ pc = "sc_wait" /\ wpc[w] = "recv"
    /\ IF reqLeft = 0
       THEN /\ wpc' = [wpc EXCEPT ![w] = "done"]
            /\ UNCHANGED reqLeft
       ELSE /\ reqLeft' = reqLeft - 1
            /\ wpc' = [wpc EXCEPT ![w] = "send"]
    /\ UNCHANGED <<storeVars, mainVars, queue, wix, whas, wbk, wcat, mirrorVars,
                   histVars, callVars, scanVars, archVars, repairVars, envVars,
                   lockVars, errsLen>>

\* errs <- e, which blocks while the buffer is full, and the loop over ch.
ErrsSend(w) ==
    /\ ~fatal /\ pc = "sc_wait" /\ wpc[w] = "send"
    /\ errsLen < errsCapacity
    /\ errsLen' = errsLen + 1
    /\ wpc' = [wpc EXCEPT ![w] = "recv"]
    /\ UNCHANGED <<storeVars, mainVars, queue, wix, whas, wbk, wcat, mirrorVars,
                   histVars, callVars, scanVars, archVars, repairVars, envVars,
                   lockVars, reqLeft>>

\* wg.Wait(); close(tick); close(errs); every value received is nil.
ErrsReturn ==
    /\ ~fatal /\ pc = "sc_wait" /\ wgWait
    /\ errsLen' = 0
    /\ result' = "nil"
    /\ pc' = "idle"
    /\ UNCHANGED <<storeVars, prog, rng, rootHAS, fatal, poolVars, mirrorVars,
                   histVars, callVars, scanVars, archVars, repairVars, envVars,
                   lockVars, reqLeft>>

InitErrs ==
    /\ InitCommon
    /\ src = EmptyStore
    /\ dst = ArchiveStore(LongHi, "shared", {}, "mirror")
    /\ \E r \in {FirstOnly, FullRange, LongRange} :
          prog = <<Call("ScanCheckpoints", r)>>
    /\ faults = {}
    /\ snap = dst /\ dst0 = dst

NextErrs ==
    \/ ErrsStart
    \/ \E w \in Workers : ErrsRecv(w) \/ ErrsSend(w)
    \/ ErrsReturn

SpecErrs == InitErrs /\ [][NextErrs]_vars

\* C20: with no failing listing, no worker of ScanCheckpoints is ever
\* stuck at its send on errs, whatever the number of listing jobs: the
\* errors channel, which is drained only after the pool has joined, has
\* room for the result of every job a worker has taken.
C20_ScanCheckpointsNeverBlocks ==
    \A w \in Workers :
        (op = "ScanCheckpoints" /\ pc = "sc_wait" /\ wpc[w] = "send")
            => errsLen < errsCapacity

====
